---- MODULE Spec2Model ----
(***************************************************************************)
(* Rejection-sampling belief update of pomdpy.pomdp.model.Model:           *)
(* generate_particles and generate_particles_uninformed, run against an    *)
(* abstract generative model (generate_step) and a belief tree that        *)
(* supplies the action-node and observation-class lookups.                 *)
(***************************************************************************)
EXTENDS Naturals, Sequences, FiniteSets

\* ------------------------------------------------------------------ bounds
\* largest n_particles requested
MaxParticles == 2
\* longest prior particle list
MaxPrev == 2
\* the ghost call counters stop counting here (the loop itself does not stop)
MaxAttempts == 3

\* ------------------------------------------------------------- the domain
\* Python's None: a lookup that found nothing, a name not yet bound
None == "None"

ValidStates == {"tiger-left", "tiger-right"}
\* every state generate_step may hand back; "off-grid" fails is_valid
States == ValidStates \cup {"off-grid"}
Actions == {"listen", "open"}
Observations == {"hear-left", "hear-right"}
\* belief-node handles, compared by identity
Handles == {"b1", "b2"}

\* the two entry points
Informed == "generate_particles"
Uninformed == "generate_particles_uninformed"
Entries == {Informed, Uninformed}

\* an action node's observation_map: get_belief(o) is the map applied to o,
\* a belief-node handle or None.  Handles are opaque, so they are named in
\* the order the observations meet them: "hear-left" never maps to "b2".
ObsMaps == {m \in [Observations -> Handles \cup {None}] : m["hear-left"] # "b2"}
\* a belief node's action_map, as the function from the actions that have an
\* action node to that node's observation_map: get_action_node(a) is None
\* exactly when a is outside its domain.  A call reads the entry of its own
\* action only, so the expanded actions of a tree classify alike.
BeliefTrees == UNION {[D -> {m}] : D \in SUBSET Actions, m \in ObsMaps}

\* the concrete generative models the abstract generate_step is tried with
Models == {"noisy", "drift", "deaf"}

RECURSIVE SeqsUpTo(_, _)
SeqsUpTo(S, k) ==
  IF k = 0 THEN {<<>>}
  ELSE LET shorter == SeqsUpTo(S, k - 1)
       IN  shorter \cup {Append(s, x) : s \in {t \in shorter : Len(t) = k - 1}, x \in S}

Range(s) == {s[i] : i \in 1..Len(s)}

VARIABLES
  previous_belief,  \* the prior belief node's action_map
  action,           \* the action taken
  obs,              \* the observation received
  n_particles,      \* the requested particle count
  prev_particles,   \* the prior particle list as it was at entry
  model,            \* which generative model self is
  entry,            \* the entry point called, or "both" for a side-by-side run
  run               \* per entry point: the locals of its call

vars == <<previous_belief, action, obs, n_particles, prev_particles, model, entry, run>>
inputs == <<previous_belief, action, obs, n_particles, prev_particles, model, entry>>

\* Model.is_valid
is_valid(state) == state \in ValidStates

\* Model.sample_state_uninformed: any valid state
sample_state_uninformed == ValidStates

StepResult(o, s, legal) == [observation |-> o, next_state |-> s, is_legal |-> legal]

\* Model.generate_step(state, a): the set of (StepResult, is_legal) pairs the
\* stochastic model may return.
\*   noisy: listening keeps the state and hears either side; opening resets it
\*   drift: the observation reveals the state; only tiger-left is a legal
\*          place to act, where the next state may be anything, off-grid
\*          included; elsewhere the step is illegal and keeps the state
\*   deaf:  always hears right
generate_step(state, a) ==
  CASE model = "noisy" ->
         IF a = "listen"
         THEN {StepResult(o, state, TRUE) : o \in Observations}
         ELSE {StepResult(o, s, TRUE) : o \in Observations, s \in ValidStates}
    [] model = "drift" ->
         LET o == IF state = "tiger-left" THEN "hear-left" ELSE "hear-right"
         IN  IF state = "tiger-left"
             THEN {StepResult(o, s, TRUE) : s \in States}
             ELSE {StepResult(o, state, FALSE)}
    [] OTHER ->
         {StepResult("hear-right", state, TRUE)}

Inc(c) == IF c < MaxAttempts THEN c + 1 ELSE c

\* The locals of a call that has not started.  particles names the list
\* object the local is bound to ("fresh": the list made at entry); fresh and
\* prev hold the contents of the two list objects.  accepted, n_draws,
\* n_steps, n_iters, odd, state, src, stepped and result record what the
\* call did (odd: an odd number of passes so far); the code does not read them.  The observation map of the action
\* node (the local obs_map) is previous_belief[action] throughout.
NotStarted(pc, prev) ==
  [pc |-> pc, error |-> None, child_node |-> None,
   particles |-> None, fresh |-> <<>>, prev |-> prev,
   accepted |-> <<>>, n_draws |-> 0, n_steps |-> 0, n_iters |-> 0, odd |-> FALSE,
   state |-> None, src |-> None, stepped |-> <<None, None>>,
   result |-> StepResult(None, None, FALSE)]

\* the contents of the list the local `particles` names
Particles(r) ==
  IF r.particles = "prev" THEN r.prev ELSE r.fresh

\* NewList gone wrong: the local is bound to the caller's list
NewListAliased(r) == [r EXCEPT !.particles = "prev"]

\* line 162 / 191: particles = []
NewList(r) == [r EXCEPT !.particles = "fresh", !.fresh = <<>>]

\* lines 162-168: the lookups of generate_particles before its loop
call_informed(r) ==
  LET p == NewList(r)
  IN  IF action \notin DOMAIN previous_belief
      THEN [p EXCEPT !.pc = "returned"]
      ELSE [p EXCEPT !.pc = "loop", !.child_node = previous_belief[action][obs]]

\* lines 191-193: the lookups of generate_particles_uninformed; a missing
\* action node has no observation_map attribute
call_uninformed(r) ==
  LET p == NewList(r)
  IN  IF action \notin DOMAIN previous_belief
      THEN [p EXCEPT !.pc = "raised", !.error = "AttributeError"]
      ELSE [p EXCEPT !.pc = "loop", !.child_node = previous_belief[action][obs]]

call(e, r) == IF e = Informed THEN call_informed(r) ELSE call_uninformed(r)

\* LoopCond gone wrong: one pass too many
LoopCondOffByOne(r) == Len(Particles(r)) <= n_particles

\* LoopCond with an attempt budget
LoopCondCapped(r) == Len(Particles(r)) < n_particles /\ r.n_iters < MaxAttempts

\* line 170 / 195: while particles.__len__() < n_particles
LoopCond(r) == Len(Particles(r)) < n_particles

\* Proposal gone wrong: both entry points draw from the uninformed sampler
ProposalUninformed(e, r) ==
  {[state |-> s, src |-> "sample_state_uninformed"] : s \in sample_state_uninformed}

\* line 172 / 197: the candidates one draw may produce, with where each
\* comes from; random.choice reads the list and leaves it as it is
Proposal(e, r) ==
  IF e = Informed
  THEN {[state |-> r.prev[i], src |-> "prev_particles"] : i \in 1..Len(r.prev)}
  ELSE {[state |-> s, src |-> "sample_state_uninformed"] : s \in sample_state_uninformed}

\* Matches gone wrong: the test is inverted
MatchesInverted(r, result) == previous_belief[action][result.observation] # r.child_node

\* Matches gone wrong: the test also asks for a legal step
MatchesLegal(r, result) ==
  previous_belief[action][result.observation] = r.child_node /\ result.is_legal

\* line 178 / 203: obs_map.get_belief(result.observation) is child_node
Matches(r, result) == previous_belief[action][result.observation] = r.child_node

\* line 179 / 204: particles.append(x) acts on the list object the local names
append(r, x) ==
  IF r.particles = "prev"
  THEN [r EXCEPT !.prev = Append(@, x)]
  ELSE [r EXCEPT !.fresh = Append(@, x)]

\* lines 172-179 / 197-204: one pass of the loop body with candidate c drawn
\* and result returned by generate_step(c.state, action)
iterate(r, c, result) ==
  LET drawn   == [r EXCEPT !.state = c.state, !.src = c.src, !.n_draws = Inc(@)]
      stepped == [drawn EXCEPT !.stepped = <<drawn.state, action>>, !.result = result,
                               !.n_steps = Inc(@), !.n_iters = Inc(@),
                               !.odd = ~@]
  IN  IF Matches(stepped, result)
      THEN [append(stepped, result.next_state) EXCEPT !.accepted = Append(@, result)]
      ELSE stepped

\* line 172: random.choice of an empty list raises IndexError
choice_fails(r) == [r EXCEPT !.pc = "raised", !.error = "IndexError"]

\* line 180 / 205: return particles
return(r) == [r EXCEPT !.pc = "returned"]

\* ------------------------------------------------------- one call at a time
Init ==
  /\ previous_belief \in BeliefTrees
  /\ action \in Actions
  /\ obs \in Observations
  /\ n_particles \in 0..MaxParticles
  /\ model \in Models
  /\ entry \in Entries
  /\ prev_particles \in IF entry = Informed THEN SeqsUpTo(ValidStates, MaxPrev) ELSE {<<>>}
  /\ run = [e \in Entries |->
              IF e = entry THEN NotStarted("call", prev_particles)
                           ELSE NotStarted("idle", <<>>)]

Call(e) ==
  /\ run[e].pc = "call"
  /\ run' = [run EXCEPT ![e] = call(e, run[e])]
  /\ UNCHANGED inputs

Iterate(e) ==
  /\ run[e].pc = "loop"
  /\ LoopCond(run[e])
  /\ \E c \in Proposal(e, run[e]) :
       \E result \in generate_step(c.state, action) :
         run' = [run EXCEPT ![e] = iterate(run[e], c, result)]
  /\ UNCHANGED inputs

ChoiceFails(e) ==
  /\ run[e].pc = "loop"
  /\ LoopCond(run[e])
  /\ Proposal(e, run[e]) = {}
  /\ run' = [run EXCEPT ![e] = choice_fails(run[e])]
  /\ UNCHANGED inputs

Return(e) ==
  /\ run[e].pc = "loop"
  /\ ~LoopCond(run[e])
  /\ run' = [run EXCEPT ![e] = return(run[e])]
  /\ UNCHANGED inputs

Next == \E e \in Entries : Call(e) \/ Iterate(e) \/ ChoiceFails(e) \/ Return(e)

Spec == Init /\ [][Next]_vars

\* a pass of the loop whose step result is accepted
Accept(e) ==
  /\ run[e].pc = "loop"
  /\ LoopCond(run[e])
  /\ \E c \in Proposal(e, run[e]) :
       \E result \in generate_step(c.state, action) :
         /\ Matches(run[e], result)
         /\ run' = [run EXCEPT ![e] = iterate(run[e], c, result)]
  /\ UNCHANGED inputs

\* The call is one thread that runs on (weak fairness of its next step), and
\* an outcome of the random draws that stays possible pass after pass is
\* eventually drawn (weak fairness of the accepting pass).
FairSpec == Spec /\ WF_vars(Next) /\ WF_vars(\E e \in Entries : Accept(e))

\* ------------------------------------------------ the two calls side by side
\* the step entry point e takes next, fed candidate state s and step result
Advance(e, r, s, result) ==
  CASE r.pc = "call" -> call(e, r)
    [] r.pc = "loop" /\ ~LoopCond(r) -> return(r)
    [] r.pc = "loop" /\ LoopCond(r) /\ Proposal(e, r) = {} -> choice_fails(r)
    [] r.pc = "loop" /\ LoopCond(r) /\ Proposal(e, r) # {} ->
         iterate(r, CHOOSE c \in Proposal(e, r) : c.state = s, result)
    [] OTHER -> r

\* e is about to draw a candidate
Drawing(e) ==
  /\ run[e].pc = "loop"
  /\ LoopCond(run[e])
  /\ Proposal(e, run[e]) # {}

PairInit ==
  /\ previous_belief \in BeliefTrees
  /\ action \in Actions
  /\ obs \in Observations
  /\ n_particles \in 0..MaxParticles
  /\ model \in Models
  /\ entry = "both"
  /\ prev_particles \in SeqsUpTo(ValidStates, MaxPrev)
  /\ run = [e \in Entries |->
              NotStarted("call", IF e = Informed THEN prev_particles ELSE <<>>)]

\* both calls take their next step, on the same candidate and the same result
Lockstep ==
  /\ \E s \in ValidStates :
       /\ \A e \in Entries : Drawing(e) => s \in {c.state : c \in Proposal(e, run[e])}
       /\ \E result \in generate_step(s, action) :
            run' = [e \in Entries |-> Advance(e, run[e], s, result)]
  /\ run' # run
  /\ UNCHANGED inputs

PairNext == Lockstep

PairSpec == PairInit /\ [][PairNext]_vars

\* ------------------------------------------------------------------ claims
Started(e) == run[e].pc \notin {"idle", "call"}
Finished(e) == run[e].pc \in {"returned", "raised"}
ActionNodeExists == action \in DOMAIN previous_belief
\* (action, obs) has a belief-tree node on the prior belief
NodeExists == ActionNodeExists /\ previous_belief[action][obs] # None
\* the belief-node handle an observation classifies to under the action node
Class(o) == previous_belief[action][o]
\* some draw and step of the proposal is accepted
CanMatch(e) ==
  \E c \in Proposal(e, run[e]) :
    \E result \in generate_step(c.state, action) : Class(result.observation) = Class(obs)

\* C1: with n_particles > 0 and an existing belief-tree node for (action,
\* obs), a call that returns, returns exactly n_particles particles.
C1_ExactCount ==
  \A e \in Entries :
    (run[e].pc = "returned" /\ n_particles > 0 /\ NodeExists)
      => Len(Particles(run[e])) = n_particles

\* a call returned its full count after at least one rejected candidate
C1_Witness ==
  \E e \in Entries :
    /\ run[e].pc = "returned" /\ NodeExists
    /\ n_particles = MaxParticles
    /\ Len(Particles(run[e])) = n_particles
    /\ run[e].n_iters > n_particles

\* C2: when (action, obs) has no belief-tree node, both entry points return
\* an empty collection, raise nothing and never call generate_step.
C2_NoNodeReturnsEmpty ==
  \A e \in Entries :
    (Started(e) /\ ~NodeExists)
      => /\ run[e].pc = "returned"
         /\ Particles(run[e]) = <<>>
         /\ run[e].n_steps = 0

\* C3: at every point of the call, each accumulated particle is the
\* next_state of a step result whose observation classifies to the same
\* belief-node handle as the target observation.
C3_ParticlesMatchTarget ==
  \A e \in Entries :
    LET r == run[e]
    IN  /\ Len(r.accepted) = Len(Particles(r))
        /\ \A i \in 1..Len(Particles(r)) :
             /\ Particles(r)[i] = r.accepted[i].next_state
             /\ Class(r.accepted[i].observation) = Class(obs)

\* a returned particle came from an observation that is not the target
\* itself but shares its belief node
C3_Witness ==
  \E e \in Entries :
    /\ run[e].pc = "returned" /\ NodeExists
    /\ \E i \in 1..Len(Particles(run[e])) : run[e].accepted[i].observation # obs
    /\ \E i \in 1..Len(Particles(run[e])) : run[e].accepted[i].observation = obs

\* C4: the call makes a bounded number of generate_step calls and then ends
\* (stated for the calls whose target node exists).
C4_CallEnds ==
  NodeExists => <>(\A e \in Entries : run[e].pc = "idle" \/ Finished(e))

\* C5: every state of a returned collection satisfies is_valid (stated for
\* the calls whose target node exists and that asked for particles).
C5_ReturnedValid ==
  \A e \in Entries :
    (run[e].pc = "returned" /\ NodeExists /\ n_particles > 0)
      => \A i \in 1..Len(Particles(run[e])) : is_valid(Particles(run[e])[i])

\* C6: side by side on the same inputs, candidates and step results, the two
\* entry points have the same outcome.
C6_SameOutcome ==
  /\ run[Informed].pc = run[Uninformed].pc
  /\ run[Informed].error = run[Uninformed].error
  /\ Particles(run[Informed]) = Particles(run[Uninformed])

\* C7: generate_particles leaves the prior particle list as it was at entry,
\* and the list it builds and returns is a new one.
C7_PriorUnchanged ==
  LET r == run[Informed]
  IN  /\ r.pc # "idle" => r.prev = prev_particles
      /\ Started(Informed) => r.particles = "fresh"

\* generate_particles returned after accepting and after rejecting
C7_Witness ==
  LET r == run[Informed]
  IN  /\ r.pc = "returned"
      /\ Len(prev_particles) = MaxPrev
      /\ Len(Particles(r)) >= 1
      /\ r.n_iters > Len(Particles(r))

\* C8: every pass of the loop draws one candidate from the entry point's own
\* proposal (prev_particles, which stays whole, or sample_state_uninformed)
\* and calls generate_step once, with that candidate and the given action.
C8_OneDrawOneStep ==
  \A e \in Entries :
    LET r == run[e]
    IN  /\ r.n_draws = r.n_iters
        /\ r.n_steps = r.n_iters
        /\ r.n_iters > 0 =>
             /\ r.stepped = <<r.state, action>>
             /\ e = Informed =>
                  /\ r.src = "prev_particles"
                  /\ r.state \in Range(prev_particles)
                  /\ {c.state : c \in Proposal(e, r)} = Range(prev_particles)
             /\ e = Uninformed =>
                  /\ r.src = "sample_state_uninformed"
                  /\ r.state \in sample_state_uninformed

\* the only prior particle has been drawn more than once
C8_Witness ==
  /\ Len(prev_particles) = 1
  /\ run[Informed].n_draws >= 2
  /\ run[Informed].n_steps >= 2

\* C9: with n_particles > 0 and an existing node, a call whose proposal can
\* never produce a matching observation never returns; a call in whose loop
\* a match is possible returns, with exactly n_particles accepted.
C9_NoAttemptCap ==
  /\ [](\A e \in Entries :
          (n_particles > 0 /\ NodeExists /\ ~CanMatch(e)) => run[e].pc # "returned")
  /\ (\E e \in Entries : run[e].pc = "loop" /\ CanMatch(e))
       ~> (\E e \in Entries :
             run[e].pc = "returned" /\ Len(run[e].accepted) = n_particles)

\* the loop is still running after more rejections than the counters count
C9_Witness ==
  \E e \in Entries :
    /\ run[e].pc = "loop" /\ n_particles > 0 /\ NodeExists /\ ~CanMatch(e)
    /\ run[e].n_steps = MaxAttempts
    /\ Particles(run[e]) = <<>>

\* a pass of e's loop body
Pass(e) == run[e].pc = "loop" /\ run'[e].pc = "loop" /\ run'[e] # run[e]

\* C10: a pass of the loop appends its result's next_state exactly when the
\* result's observation classifies to the target node, whatever is_legal
\* says; a rejected candidate leaves the particle list as it was.
C10_LegalityIgnored ==
  [][\A e \in Entries :
       Pass(e) =>
         Particles(run'[e]) =
           IF Class(run'[e].result.observation) = Class(obs)
           THEN Append(Particles(run[e]), run'[e].result.next_state)
           ELSE Particles(run[e])]_vars

\* a returned collection holds the next state of an illegal step
C10_Witness ==
  \E e \in Entries :
    /\ run[e].pc = "returned"
    /\ \E i \in 1..Len(Particles(run[e])) : ~run[e].accepted[i].is_legal
    /\ run[e].n_iters > Len(Particles(run[e]))

====
